---- MODULE Spec2Model ----
(***************************************************************************)
(* The analysis run of app.py: the market-data fetch, the three Agent.work *)
(* calls with their retry loop and simulation fallback, and the decision   *)
(* banner.  A Python str is a sequence of one-character strings; a Python  *)
(* value that may be None is a record with a kind.                         *)
(***************************************************************************)
EXTENDS Integers, Sequences, FiniteSets, TLC

\* ------------------------------------------------------------ bounds
\* The most fragments a model reply to the CIO is put together from.
MaxFrag == 3

\* The most items the provider's news list holds.
MaxNews == 4

\* ------------------------------------------------- program constants
\* app.py:135, range(2)
MaxAttempts == 2

\* app.py:142, time.sleep(2)
BackoffSecs == 2

\* app.py:117, news[:3]
MaxHeadlines == 3

\* ------------------------------------------------------ string literals
\* app.py:193, the name agent_a is constructed with
NameQuant ==
    <<"Q", "u", "a", "n", "t">>

\* app.py:205, the name agent_b is constructed with
NameJournalist ==
    <<"J", "o", "u", "r", "n", "a", "l", "i", "s", "t">>

\* app.py:220, the name agent_c is constructed with
NameCIO ==
    <<"C", "I", "O">>

\* app.py:193
InstrQuant ==
    <<"A", "n", "a", "l", "y", "z", "e", " ", "t", "e", "c", "h", "n", "i", "c", "a", "l", "s", " ", "(", "P", "r", "i", "c", "e", ",", " ", "T", "r", "e", "n", "d", "s", ")", ".", " ", "B", "e", " ", "c", "o", "n", "c", "i", "s", "e", ".">>

\* app.py:207
InstrJournalist ==
    <<"A", "n", "a", "l", "y", "z", "e", " ", "s", "e", "n", "t", "i", "m", "e", "n", "t", " ", "f", "r", "o", "m", " ", "n", "e", "w", "s", " ", "h", "e", "a", "d", "l", "i", "n", "e", "s", ".", " ", "B", "e", " ", "c", "o", "n", "c", "i", "s", "e", ".">>

\* app.py:222
InstrCIO ==
    <<"Y", "o", "u", " ", "a", "r", "e", " ", "a", " ", "C", "h", "i", "e", "f", " ", "I", "n", "v", "e", "s", "t", "m", "e", "n", "t", " ", "O", "f", "f", "i", "c", "e", "r", ".", " ", "D", "e", "c", "i", "d", "e", " ", "B", "U", "Y", "/", "S", "E", "L", "L", "/", "H", "O", "L", "D", ".">>

\* app.py:195, the literal part of f"Analyze {ticker}"
TaskPrefixA ==
    <<"A", "n", "a", "l", "y", "z", "e", " ">>

\* app.py:209, the literal part of f"Analyze sentiment for {ticker}"
TaskPrefixB ==
    <<"A", "n", "a", "l", "y", "z", "e", " ", "s", "e", "n", "t", "i", "m", "e", "n", "t", " ", "f", "o", "r", " ">>

\* app.py:225
TaskC ==
    <<"W", "r", "i", "t", "e", " ", "a", " ", "f", "i", "n", "a", "l", " ", "e", "m", "a", "i", "l", " ", "d", "e", "c", "i", "s", "i", "o", "n", ".">>

\* app.py:133, the literal between instructions and context
DataSep ==
    <<"\n", "D", "A", "T", "A", ":", "\n">>

\* app.py:133, the literal between context and prompt
TaskSep ==
    <<"\n", "T", "A", "S", "K", ":", " ">>

\* app.py:224
TechLabel ==
    <<"T", "e", "c", "h", ":", " ">>

\* app.py:224
NewsLabel ==
    <<"\n", "N", "e", "w", "s", ":", " ">>

\* app.py:145
MarkTechnical ==
    <<"T", "e", "c", "h", "n", "i", "c", "a", "l">>

\* app.py:147
MarkNews ==
    <<"N", "e", "w", "s">>

\* app.py:146
SimTechnical ==
    <<"S", "I", "M", "U", "L", "A", "T", "I", "O", "N", ":", " ", "T", "r", "e", "n", "d", " ", "i", "s", " ", "U", "P", ".", " ", "R", "S", "I", " ", "i", "s", " ", "4", "0", ".", " ", "S", "t", "r", "o", "n", "g", " ", "S", "u", "p", "p", "o", "r", "t", " ", "a", "t", " ", "$", "1", "3", "0", ".">>

\* app.py:148
SimNews ==
    <<"S", "I", "M", "U", "L", "A", "T", "I", "O", "N", ":", " ", "M", "a", "r", "k", "e", "t", " ", "s", "e", "n", "t", "i", "m", "e", "n", "t", " ", "i", "s", " ", "c", "a", "u", "t", "i", "o", "u", "s", " ", "b", "u", "t", " ", "o", "p", "t", "i", "m", "i", "s", "t", "i", "c", ".", " ", "E", "a", "r", "n", "i", "n", "g", "s", " ", "r", "e", "p", "o", "r", "t", " ", "p", "e", "n", "d", "i", "n", "g", ".">>

\* app.py:149
SimGeneric ==
    <<"S", "I", "M", "U", "L", "A", "T", "I", "O", "N", " ", "D", "E", "C", "I", "S", "I", "O", "N", ":", " ", "B", "U", "Y", ".", " ", "(", "A", "P", "I", " ", "Q", "u", "o", "t", "a", " ", "R", "e", "a", "c", "h", "e", "d", ")", ".">>

\* app.py:232
WordBUY ==
    <<"B", "U", "Y">>

\* app.py:235
WordSELL ==
    <<"S", "E", "L", "L">>

\* app.py:116
NoNewsFound ==
    <<"N", "o", " ", "s", "p", "e", "c", "i", "f", "i", "c", " ", "n", "e", "w", "s", " ", "f", "o", "u", "n", "d", ".">>

\* app.py:119
NewsError ==
    <<"E", "r", "r", "o", "r", " ", "f", "e", "t", "c", "h", "i", "n", "g", " ", "n", "e", "w", "s", ".">>

\* what str() and an f-string make of None
NoneText ==
    <<"N", "o", "n", "e">>

\* app.py:160, the default ticker
NVDA ==
    <<"N", "V", "D", "A">>

\* a ticker the provider has no rows for
ZZZINVALID ==
    <<"Z", "Z", "Z", "I", "N", "V", "A", "L", "I", "D">>

\* ------------------------------------------------------- Python values
\* None, as Agent.work returns it when response.text is None and as
\* get_stock_price returns it.
PyNone ==
    [kind |-> "None", s |-> <<>>]

\* A str value.
PyStr(s) ==
    [kind |-> "str", s |-> s]

\* A name the script has not assigned yet.
Unbound ==
    [kind |-> "unbound", s |-> <<>>]

\* bool(v): None and the empty str are false.
Truthy(v) ==
    v.kind = "str" /\ v.s # <<>>

\* str(v), which is what an f-string and st.markdown make of a value.
StrOf(v) ==
    IF v.kind = "None" THEN NoneText ELSE v.s

LowerLetters ==
    <<"a", "b", "c", "d", "e", "f", "g", "h", "i", "j", "k", "l", "m",
      "n", "o", "p", "q", "r", "s", "t", "u", "v", "w", "x", "y", "z">>

UpperLetters ==
    <<"A", "B", "C", "D", "E", "F", "G", "H", "I", "J", "K", "L", "M",
      "N", "O", "P", "Q", "R", "S", "T", "U", "V", "W", "X", "Y", "Z">>

\* str.upper() on one ASCII character.
UpperChar(c) ==
    IF \E i \in 1..Len(LowerLetters) : LowerLetters[i] = c
    THEN UpperLetters[CHOOSE i \in 1..Len(LowerLetters) : LowerLetters[i] = c]
    ELSE c

\* str.upper()
Upper(s) ==
    [i \in 1..Len(s) |-> UpperChar(s[i])]

\* w in s, for two strs.
Contains(s, w) ==
    \E i \in 0..(Len(s) - Len(w)) : SubSeq(s, i + 1, i + Len(w)) = w

Digits ==
    <<"0", "1", "2", "3", "4", "5", "6", "7", "8", "9">>

RECURSIVE IntStr(_)
\* The decimal digits of a natural number.
IntStr(n) ==
    IF n < 10 THEN <<Digits[n + 1]>>
    ELSE IntStr(n \div 10) \o <<Digits[(n % 10) + 1]>>

\* f"{x:.2f}" of a non-negative amount given in hundredths.
Fixed2(h) ==
    IntStr(h \div 100) \o <<".", Digits[((h % 100) \div 10) + 1], Digits[(h % 10) + 1]>>

\* f"{x:+.2f}" of an amount given in hundredths: the sign is always printed.
SignedFixed2(h) ==
    IF h < 0 THEN <<"-">> \o Fixed2(0 - h) ELSE <<"+">> \o Fixed2(h)

\* ------------------------------------------------------ market data
\* What yf.Ticker(symbol).history(period="1d") can do: raise, or return a
\* frame of rows with Open and Close in cents.  The provider has a row for
\* NVDA only; the row's change is a whole number of hundredths of a percent,
\* so the rounding of the format never acts.
HistoryOutcomes(symbol) ==
    {[raises |-> TRUE, rows |-> <<>>], [raises |-> FALSE, rows |-> <<>>]}
    \cup (IF symbol = NVDA
          THEN {[raises |-> FALSE,
                 rows |-> <<[Open |-> 9000, Close |-> 9900], [Open |-> 12500, Close |-> 13000]>>]}
          ELSE {})

\* get_stock_price, on what the provider did.
get_stock_price(h) ==
    IF h.raises THEN PyNone
    ELSE IF h.rows = <<>> THEN PyNone
    ELSE LET current == h.rows[Len(h.rows)].Close
             open_p == h.rows[Len(h.rows)].Open
             change == ((current - open_p) * 10000) \div open_p
         IN  PyStr(<<"$">> \o Fixed2(current) \o <<" ", "(">>
                   \o SignedFixed2(change) \o <<"%", ")">>)

\* The i-th item of the provider's news list; the second carries no title.
NewsItem(i) ==
    IF i = 2 THEN PyNone ELSE PyStr(<<"H", Digits[i + 1]>>)

\* What yf.Ticker(symbol).news can do: raise, or return a list of items.
NewsOutcomes(symbol) ==
    {[raises |-> TRUE, items |-> <<>>]}
    \cup {[raises |-> FALSE, items |-> [i \in 1..n |-> NewsItem(i)]] :
            n \in (IF symbol = NVDA THEN 0..MaxNews ELSE {0})}

RECURSIVE JoinLines(_)
\* "\n".join(lines)
JoinLines(lines) ==
    IF Len(lines) = 0 THEN <<>>
    ELSE IF Len(lines) = 1 THEN lines[1]
    ELSE lines[1] \o <<"\n">> \o JoinLines(Tail(lines))

\* news[:3]
FirstHeadlines(items) ==
    SubSeq(items, 1, IF Len(items) < MaxHeadlines THEN Len(items) ELSE MaxHeadlines)

\* get_market_news, on what the provider did.
get_market_news(n) ==
    IF n.raises THEN NewsError
    ELSE IF n.items = <<>> THEN NoNewsFound
    ELSE LET top == FirstHeadlines(n.items)
         IN  JoinLines([i \in 1..Len(top) |-> <<"-", " ">> \o StrOf(top[i])])

\* ------------------------------------------------------------ agents
\* Agent("Quant", model_name, ...)
AgentA ==
    [name |-> NameQuant, model |-> "gemini-1.5-flash", instructions |-> InstrQuant]

\* Agent("Journalist", model_name, ...)
AgentB ==
    [name |-> NameJournalist, model |-> "gemini-1.5-flash", instructions |-> InstrJournalist]

\* Agent("CIO", model_name, ...)
AgentC ==
    [name |-> NameCIO, model |-> "gemini-1.5-flash", instructions |-> InstrCIO]

\* final_prompt of Agent.work
FinalPrompt(agent, context, prompt) ==
    agent.instructions \o DataSep \o context \o TaskSep \o prompt

\* A loop that turns once more.
LoopContinuesOnceMore(n) ==
    n <= MaxAttempts

\* A loop that gives up one turn early.
LoopStopsEarly(n) ==
    n < MaxAttempts - 1

\* The loop test of `for attempt in range(2)`.
LoopContinues(n) ==
    n < MaxAttempts

\* A fallback whose last branch returns the sentiment text.
SimulationElseNews(name) ==
    IF Contains(name, MarkTechnical) THEN SimTechnical ELSE SimNews

\* The canned text Agent.work falls back to, chosen by the agent's name.
Simulation(name) ==
    IF Contains(name, MarkTechnical) THEN SimTechnical
    ELSE IF Contains(name, MarkNews) THEN SimNews
    ELSE SimGeneric

\* A context with the two reports exchanged.
FinalContextSwapped(a, b) ==
    TechLabel \o StrOf(b) \o NewsLabel \o StrOf(a)

\* final_context of the run
FinalContext(a, b) ==
    TechLabel \o StrOf(a) \o NewsLabel \o StrOf(b)

\* A test that misses None.
PriceMissingOnlyEmpty(p) ==
    p.kind = "str" /\ p.s = <<>>

\* The test that stops the run for want of a price: `if not price_str`.
PriceMissing(p) ==
    ~Truthy(p)

\* A banner that tests SELL before BUY.
ClassifySellFirst(text) ==
    IF Contains(Upper(text), WordSELL) THEN "SELL"
    ELSE IF Contains(Upper(text), WordBUY) THEN "BUY"
    ELSE "HOLD"

\* The signal the decision banner shows for a str.
Classify(text) ==
    IF Contains(Upper(text), WordBUY) THEN "BUY"
    ELSE IF Contains(Upper(text), WordSELL) THEN "SELL"
    ELSE "HOLD"

\* --------------------------------------------------- the model's replies
Fragments ==
    {<<"B", "u">>, <<"y">>, <<"s", "E", "L", "L">>}

RECURSIVE Texts(_)
\* The strs put together from at most n fragments.
Texts(n) ==
    IF n = 0 THEN {<<>>}
    ELSE Texts(n - 1) \cup {t \o f : t \in Texts(n - 1), f \in Fragments}

\* What response.text can be when generate_content returns: None, or a str.
\* The two analysts' reports only pass through into the CIO's context, so
\* they are drawn from three values; the CIO's reply is what the banner reads.
Replies(name) ==
    IF name = NameCIO
    THEN {PyNone} \cup {PyStr(t) : t \in Texts(MaxFrag)}
    ELSE {PyNone, PyStr(<<>>), PyStr(<<"B", "u", "y">>)}

Tickers ==
    {NVDA, ZZZINVALID}

\* ------------------------------------------------------------- state
VARIABLES
    pc,            \* where the script is: idle, agent_a, agent_b, agent_c, banner, done, stopped, crashed
    wpc,           \* where the running Agent.work is: idle, try, except, fallback
    ticker,        \* the symbol in the text input
    price_str,     \* what get_stock_price returned
    news_str,      \* what get_market_news returned
    attempt,       \* the loop variable of Agent.work
    final_prompt,  \* final_prompt of the running Agent.work
    res_a,         \* the Technical agent's report
    res_b,         \* the News agent's report
    res_c,         \* the CIO's decision text
    status,        \* what each agent's status box shows
    banner,        \* the signal of the decision banner, "none" before it is drawn
    trace          \* the calls made so far: generate_content, time.sleep, status_box.warning

vars ==
    <<pc, wpc, ticker, price_str, news_str, attempt, final_prompt,
      res_a, res_b, res_c, status, banner, trace>>

AgentPcs ==
    {"agent_a", "agent_b", "agent_c"}

\* The agent the script is running at pc.
AgentAt(p) ==
    IF p = "agent_a" THEN AgentA ELSE IF p = "agent_b" THEN AgentB ELSE AgentC

\* The context argument of the work call at pc.
ContextAt(p) ==
    IF p = "agent_a" THEN price_str.s
    ELSE IF p = "agent_b" THEN news_str
    ELSE FinalContext(res_a, res_b)

\* The prompt argument of the work call at pc.
TaskAt(p) ==
    IF p = "agent_a" THEN TaskPrefixA \o ticker
    ELSE IF p = "agent_b" THEN TaskPrefixB \o ticker
    ELSE TaskC

\* The statement after the work call at pc.
AfterAgent(p) ==
    IF p = "agent_a" THEN "agent_b" ELSE IF p = "agent_b" THEN "agent_c" ELSE "banner"

\* One entry of the trace.
Event(ev, name, prompt, ret, secs) ==
    [ev |-> ev, name |-> name, prompt |-> prompt, ret |-> ret, secs |-> secs]

Init ==
    /\ pc = "idle"
    /\ wpc = "idle"
    /\ ticker = NVDA
    /\ price_str = Unbound
    /\ news_str = <<>>
    /\ attempt = 0
    /\ final_prompt = <<>>
    /\ res_a = Unbound
    /\ res_b = Unbound
    /\ res_c = Unbound
    /\ status = [k \in AgentPcs |-> "empty"]
    /\ banner = "none"
    /\ trace = <<>>

\* The Run Analysis button with `sym` in the text input: both fetches, then
\* the stop for want of a price.
RunAnalysis(sym, h, n) ==
    /\ pc = "idle"
    /\ ticker' = sym
    /\ price_str' = get_stock_price(h)
    /\ news_str' = get_market_news(n)
    /\ pc' = IF PriceMissing(price_str') THEN "stopped" ELSE "agent_a"
    /\ UNCHANGED <<wpc, attempt, final_prompt, res_a, res_b, res_c, status, banner, trace>>

\* Agent.work up to its loop: the status text and the prompt.
WorkEnter ==
    /\ pc \in AgentPcs
    /\ wpc = "idle"
    /\ status' = [status EXCEPT ![pc] = "analyzing"]
    /\ final_prompt' = FinalPrompt(AgentAt(pc), ContextAt(pc), TaskAt(pc))
    /\ attempt' = 0
    /\ wpc' = IF LoopContinues(0) THEN "try" ELSE "fallback"
    /\ UNCHANGED <<pc, ticker, price_str, news_str, res_a, res_b, res_c, banner, trace>>

\* The return of Agent.work with value v, and the script up to the next
\* work call: the result is bound and the status box shows success.
Return(v) ==
    /\ res_a' = IF pc = "agent_a" THEN v ELSE res_a
    /\ res_b' = IF pc = "agent_b" THEN v ELSE res_b
    /\ res_c' = IF pc = "agent_c" THEN v ELSE res_c
    /\ status' = [status EXCEPT ![pc] = "success"]
    /\ pc' = AfterAgent(pc)
    /\ wpc' = "idle"

\* generate_content returns a response whose text is r: work returns it.
GenerateReturns(r) ==
    /\ pc \in AgentPcs
    /\ wpc = "try"
    /\ trace' = Append(trace, Event("generate_ok", AgentAt(pc).name, final_prompt, r, 0))
    /\ Return(r)
    /\ UNCHANGED <<ticker, price_str, news_str, attempt, final_prompt, banner>>

\* generate_content raises: control enters the except clause.
GenerateRaises ==
    /\ pc \in AgentPcs
    /\ wpc = "try"
    /\ trace' = Append(trace, Event("generate_raise", AgentAt(pc).name, final_prompt, Unbound, 0))
    /\ wpc' = "except"
    /\ UNCHANGED <<pc, ticker, price_str, news_str, attempt, final_prompt,
                   res_a, res_b, res_c, status, banner>>

\* The except clause: time.sleep(2), then the next turn of the loop or its end.
Backoff ==
    /\ pc \in AgentPcs
    /\ wpc = "except"
    /\ trace' = Append(trace, Event("sleep", AgentAt(pc).name, <<>>, Unbound, BackoffSecs))
    /\ attempt' = attempt + 1
    /\ wpc' = IF LoopContinues(attempt + 1) THEN "try" ELSE "fallback"
    /\ UNCHANGED <<pc, ticker, price_str, news_str, final_prompt,
                   res_a, res_b, res_c, status, banner>>

\* After the loop: the warning, and the canned text returned.
Fallback ==
    /\ pc \in AgentPcs
    /\ wpc = "fallback"
    /\ trace' = Append(trace, Event("warning", AgentAt(pc).name, <<>>, Unbound, 0))
    /\ Return(PyStr(Simulation(AgentAt(pc).name)))
    /\ UNCHANGED <<ticker, price_str, news_str, attempt, final_prompt, banner>>

\* The decision banner: res_c.upper() raises AttributeError on None, and the
\* script ends there with no banner drawn.
DecisionBanner ==
    /\ pc = "banner"
    /\ IF res_c.kind = "str"
       THEN /\ banner' = Classify(res_c.s)
            /\ pc' = "done"
       ELSE /\ banner' = banner
            /\ pc' = "crashed"
    /\ UNCHANGED <<wpc, ticker, price_str, news_str, attempt, final_prompt,
                   res_a, res_b, res_c, status, trace>>

Next ==
    \/ \E sym \in Tickers : \E h \in HistoryOutcomes(sym) : \E n \in NewsOutcomes(sym) :
          RunAnalysis(sym, h, n)
    \/ WorkEnter
    \/ \E r \in Replies(AgentAt(pc).name) : GenerateReturns(r)
    \/ GenerateRaises
    \/ Backoff
    \/ Fallback
    \/ DecisionBanner

Spec ==
    Init /\ [][Next]_vars

\* ------------------------------------------------- reading the trace
AgentNames ==
    {NameQuant, NameJournalist, NameCIO}

\* The name the script binds the agent's report to.
ResultOf(name) ==
    IF name = NameQuant THEN res_a ELSE IF name = NameJournalist THEN res_b ELSE res_c

\* The places of the trace where the agent called generate_content.
GenerateIdx(name) ==
    {i \in DOMAIN trace : trace[i].name = name /\ trace[i].ev \in {"generate_ok", "generate_raise"}}

\* The places of the trace where the agent's call raised.
RaiseIdx(name) ==
    {i \in DOMAIN trace : trace[i].name = name /\ trace[i].ev = "generate_raise"}

\* The places of the trace where the agent's call returned.
OkIdx(name) ==
    {i \in DOMAIN trace : trace[i].name = name /\ trace[i].ev = "generate_ok"}

\* The places of the trace where the agent slept.
SleepIdx(name) ==
    {i \in DOMAIN trace : trace[i].name = name /\ trace[i].ev = "sleep"}

\* The agent emitted the simulation warning.
Warned(name) ==
    \E i \in DOMAIN trace : trace[i].name = name /\ trace[i].ev = "warning"

\* The agent's work call has returned.
Returned(name) ==
    ResultOf(name).kind # "unbound"

\* The three canned texts.
CannedTexts ==
    {SimTechnical, SimNews, SimGeneric}

\* w occurs in text when case is ignored, letter by letter.
HasWord(text, w) ==
    \E i \in 1..Len(text) :
        /\ i + Len(w) - 1 <= Len(text)
        /\ \A j \in 1..Len(w) : UpperChar(text[i + j - 1]) = w[j]

\* ------------------------------------------------------------ claims

\* C1: when the price summary is absent the run stops with no market data:
\* no generate_content call is made, no agent is entered, no report is bound
\* and no banner is drawn; a provider that raises yields an absent summary.
NoMarketDataAborts ==
    /\ \A sym \in Tickers : \A h \in HistoryOutcomes(sym) :
          h.raises => get_stock_price(h) = PyNone
    /\ (pc # "idle" /\ price_str = PyNone) =>
          /\ pc = "stopped"
          /\ trace = <<>>
          /\ wpc = "idle"
          /\ \A k \in AgentPcs : status[k] = "empty"
          /\ res_a = Unbound /\ res_b = Unbound /\ res_c = Unbound
          /\ banner = "none"

\* C1 witness: a run stopped for want of a price, the news fetch already done.
NoMarketDataReached ==
    pc = "stopped" /\ ticker = ZZZINVALID /\ price_str = PyNone /\ news_str = NewsError

\* C2: with a price summary present the run never ends otherwise than with a
\* banner showing BUY, SELL or HOLD over a non-empty decision text.
AlwaysDecision ==
    (pc # "idle" /\ Truthy(price_str)) =>
        /\ pc # "crashed"
        /\ pc # "stopped"
        /\ pc = "done" => /\ banner \in {"BUY", "SELL", "HOLD"}
                          /\ Truthy(res_c)

\* C3: every report Agent.work has returned is a non-empty str.
ResultNonEmpty ==
    \A name \in AgentNames : Returned(name) => Truthy(ResultOf(name))

\* C4: one work call makes at most MaxAttempts generate_content calls, the
\* warning comes only after MaxAttempts of them, and a run makes at most
\* three times MaxAttempts.
AttemptsBounded ==
    /\ \A name \in AgentNames :
          /\ Cardinality(GenerateIdx(name)) <= MaxAttempts
          /\ Warned(name) => Cardinality(GenerateIdx(name)) = MaxAttempts
    /\ Cardinality({i \in DOMAIN trace : trace[i].ev \in {"generate_ok", "generate_raise"}})
          <= 3 * MaxAttempts

\* C4 witness: a finished run in which every agent used all its attempts.
AllAttemptsUsed ==
    /\ pc = "done"
    /\ \A name \in AgentNames : Cardinality(GenerateIdx(name)) = MaxAttempts

\* C5: in a finished run where every generate_content call raised, the three
\* reports are the technical, the sentiment and the generic canned text, all
\* three agents warned, and the banner shows BUY.
FullSimulationTexts ==
    (pc = "done" /\ \A name \in AgentNames : OkIdx(name) = {}) =>
        /\ res_a = PyStr(SimTechnical)
        /\ res_b = PyStr(SimNews)
        /\ res_c = PyStr(SimGeneric)
        /\ \A name \in AgentNames : Warned(name)
        /\ banner = "BUY"

\* C6: the banner shows BUY exactly when the decision text holds "buy" in any
\* case, SELL exactly when it holds "sell" and no "buy", HOLD otherwise.
ClassifierPrecedence ==
    pc = "done" =>
        /\ res_c.kind = "str"
        /\ banner \in {"BUY", "SELL", "HOLD"}
        /\ banner = "BUY" <=> HasWord(res_c.s, WordBUY)
        /\ banner = "SELL" <=> (~HasWord(res_c.s, WordBUY) /\ HasWord(res_c.s, WordSELL))
        /\ banner = "HOLD" <=> (~HasWord(res_c.s, WordBUY) /\ ~HasWord(res_c.s, WordSELL))

\* C6 witness: a decision text with "sELL" before "Buy" shown as BUY.
SellThenBuyShownBuy ==
    /\ pc = "done"
    /\ res_c = PyStr(<<"s", "E", "L", "L", "B", "u", "y">>)
    /\ banner = "BUY"

\* C7: every CIO event comes after every event of the two analysts and after
\* both reports are bound; every CIO call carries the prompt built on
\* "Tech: <technical report>\nNews: <news report>"; and once the script is
\* past the analysts both have called generate_content and returned.
SupervisorAfterBoth ==
    LET expected == InstrCIO \o DataSep \o TechLabel \o StrOf(res_a)
                      \o NewsLabel \o StrOf(res_b) \o TaskSep \o TaskC
    IN  /\ \A i \in DOMAIN trace : trace[i].name = NameCIO =>
              /\ Returned(NameQuant) /\ Returned(NameJournalist)
              /\ \A j \in DOMAIN trace : trace[j].name # NameCIO => j < i
              /\ i \in GenerateIdx(NameCIO) => trace[i].prompt = expected
        /\ (pc = "agent_c" /\ wpc # "idle") => final_prompt = expected
        /\ pc \in {"agent_c", "banner", "done", "crashed"} =>
              /\ Returned(NameQuant) /\ Returned(NameJournalist)
              /\ GenerateIdx(NameQuant) # {} /\ GenerateIdx(NameJournalist) # {}

\* C7 witness: the Technical agent fell back, the News agent returned a reply
\* of the model, and the CIO made a call on both.
SupervisorRanAfterFallback ==
    /\ pc = "done"
    /\ Warned(NameQuant) /\ ~Warned(NameJournalist)
    /\ res_b = PyStr(<<"B", "u", "y">>)
    /\ GenerateIdx(NameCIO) # {}

\* C8: a returned work call warned exactly when all MaxAttempts calls raised,
\* and exactly then its report is a canned text; a call that returned is the
\* agent's last event, follows only raised calls, and its text is the report.
SimulatedIffAllFailed ==
    \A name \in AgentNames : Returned(name) =>
        /\ Warned(name) <=> (OkIdx(name) = {} /\ Cardinality(RaiseIdx(name)) = MaxAttempts)
        /\ Warned(name) <=> (ResultOf(name).kind = "str" /\ ResultOf(name).s \in CannedTexts)
        /\ \A i \in OkIdx(name) :
              /\ ResultOf(name) = trace[i].ret
              /\ \A j \in DOMAIN trace : (trace[j].name = name /\ j # i) =>
                    (j < i /\ trace[j].ev \in {"generate_raise", "sleep"})

\* C8 witness: the Technical agent returned the reply of its second call, and
\* the CIO fell back.
SecondAttemptReturned ==
    /\ pc = "done"
    /\ Cardinality(RaiseIdx(NameQuant)) = 1
    /\ OkIdx(NameQuant) # {}
    /\ res_a = PyStr(<<"B", "u", "y">>)
    /\ Warned(NameCIO)

\* C9: every sleep of a returned work call is followed by another
\* generate_content call of the same agent, so a call that made n attempts
\* slept n - 1 times.
BackoffBetweenAttempts ==
    \A name \in AgentNames : Returned(name) =>
        /\ \A i \in SleepIdx(name) : \E j \in GenerateIdx(name) : j > i
        /\ Cardinality(SleepIdx(name)) = Cardinality(GenerateIdx(name)) - 1

\* C10: once the CIO has warned, the script goes on to the banner and the
\* banner shows BUY.
SupervisorFallbackIsBuy ==
    Warned(NameCIO) =>
        /\ pc \in {"banner", "done"}
        /\ pc = "done" => banner = "BUY"

\* C10 witness: the CIO fell back after the Technical agent returned None and
\* the News agent a reply of the model.
SupervisorFellBack ==
    /\ pc = "done"
    /\ Warned(NameCIO)
    /\ res_a = PyNone
    /\ res_b = PyStr(<<>>)
    /\ banner = "BUY"

====
